---- MODULE Spec2Model ----
(***************************************************************************)
(* HashDisjointSet (src/src/hash_disjoint_set.rs): a union-find container  *)
(* over a HashMap (element -> index) and a Vec<Unit> (the forest), with    *)
(* union by size, path splitting and versioned subset tickets.             *)
(*                                                                         *)
(* Every method is an operator from the struct value (and its arguments)   *)
(* to the struct value after the call and the value returned; the actions  *)
(* apply these operators to the instance held in the variables.            *)
(* usize arithmetic is modelled on the integers: ver and size are bounded  *)
(* by twice the number of registered elements, far below 2^64, and SET_ID  *)
(* by the number of constructor calls.                                     *)
(* A constructor is two steps on the static SET_ID, its load and its later *)
(* fetch_add; further constructor calls run them one thread at a time      *)
(* (SpecSeq) or interleaved between two threads (SpecRace).                *)
(***************************************************************************)
EXTENDS Integers, Sequences, FiniteSets, TLC

\* The elements the caller registers: 1 .. MaxElem.
MaxElem == 4
\* Longest input sequence handed to from_iter.
MaxLoad == 2
\* Longest input sequence handed to a later from_iter call.
MaxIter == 3
\* The elements of the instance whose lookup paths are followed.
PathElems == 8

Elems == 1..MaxElem
\* An element the caller looks up but never registers (the tests' b'Q').
Absent == 0
Lookups == Elems \cup {Absent}

VARIABLES
    ver,            \* HashDisjointSet.ver
    map,            \* HashDisjointSet.map: element -> index
    set,            \* HashDisjointSet.set: index -> Unit, indices 0 .. len-1
    subset_count,   \* HashDisjointSet.subset_count
    set_id,         \* HashDisjointSet.set_id
    SET_ID,         \* the process-wide static SET_ID
    pc,             \* per constructing thread: where it is in its constructor
    arg,            \* per constructing thread: the constructor call it makes
    inst,           \* per constructing thread: the instance it builds
    ticket1,        \* the ticket the caller kept from its last find, with its element
    changed,        \* history: a successful insert or a merging union since ticket1
    model           \* history: the reference partition of the registered elements

\* the process-wide state outside the first instance
process == <<SET_ID, pc, arg, inst>>
vars == <<ver, map, set, subset_count, set_id, process, ticket1, changed, model>>

----------------------------------------------------------------------------
\* Result<T, HashDisjointSetError>
ElementNotDefined == "ElementNotDefined"
DuplicateElement == "DuplicateElement"
Ok(v) == [tag |-> "Ok", val |-> v]
Err(e) == [tag |-> "Err", err |-> e]
IsOk(r) == r.tag = "Ok"
IsErr(r, e) == r.tag = "Err" /\ r.err = e
\* the unit value ()
Unit0 == "()"
\* a call that panicked (it returns nothing)
Panic == [tag |-> "Panic"]

\* Vec<Unit>
EmptyVec == [i \in {} |-> [size |-> 0, parent |-> 0]]
VecLen(v) == Cardinality(DOMAIN v)
Push(v, u) == [i \in 0..VecLen(v) |-> IF i < VecLen(v) THEN v[i] ELSE u]

\* HashMap<&T, usize>
EmptyMap == [x \in {} |-> 0]
MapInsert(m, k, i) == [x \in (DOMAIN m) \cup {k} |-> IF x = k THEN i ELSE m[x]]

\* the struct value held in the variables
self == [ver |-> ver, map |-> map, set |-> set,
         subset_count |-> subset_count, set_id |-> set_id]

----------------------------------------------------------------------------
\* fn index(&self, elem) -> Result<usize>
index(s, elem) ==
    IF elem \in DOMAIN s.map THEN Ok(s.map[elem]) ELSE Err(ElementNotDefined)

\* Mutants of find_internal: each visited node is made its own parent; every
\* node of the path is linked to the root (full compression).
RECURSIVE find_internal_detach(_, _)
find_internal_detach(v, elem) ==
    IF v[elem].parent # elem
    THEN LET grandparent == v[elem].parent
             v2 == [v EXCEPT ![elem].parent = elem]
         IN  find_internal_detach(v2, grandparent)
    ELSE [set |-> v, root |-> elem]

RECURSIVE find_internal_full(_, _)
find_internal_full(v, elem) ==
    IF v[elem].parent # elem
    THEN LET r == find_internal_full(v, v[elem].parent)
         IN  [set |-> [r.set EXCEPT ![elem].parent = r.root], root |-> r.root]
    ELSE [set |-> v, root |-> elem]

\* Mutant of find_internal: the root is found and no link is rewritten.
RECURSIVE find_internal_lazy(_, _)
find_internal_lazy(v, elem) ==
    IF v[elem].parent # elem
    THEN [set |-> v, root |-> find_internal_lazy(v, v[elem].parent).root]
    ELSE [set |-> v, root |-> elem]

\* fn find_internal(set, elem) -> usize, with the forest after path splitting
RECURSIVE find_internal(_, _)
find_internal(v, elem) ==
    IF v[elem].parent # elem
    THEN LET grandparent == v[elem].parent
             v2 == [v EXCEPT ![elem].parent = v[grandparent].parent]
         IN  find_internal(v2, grandparent)
    ELSE [set |-> v, root |-> elem]

\* Mutants of union_merge: the link, the counter or the size transfer is lost.
union_merge_no_link(s, v, root_a0, root_b0) ==
    LET swap == v[root_a0].size < v[root_b0].size
        root_a == IF swap THEN root_b0 ELSE root_a0
        root_b == IF swap THEN root_a0 ELSE root_b0
        v3 == [v EXCEPT ![root_a].size = v[root_a].size + v[root_b].size]
    IN  [s EXCEPT !.set = v3,
                  !.subset_count = s.subset_count - 1,
                  !.ver = s.ver + 1]

union_merge_no_count(s, v, root_a0, root_b0) ==
    LET swap == v[root_a0].size < v[root_b0].size
        root_a == IF swap THEN root_b0 ELSE root_a0
        root_b == IF swap THEN root_a0 ELSE root_b0
        v2 == [v EXCEPT ![root_b].parent = root_a]
        v3 == [v2 EXCEPT ![root_a].size = v2[root_a].size + v2[root_b].size]
    IN  [s EXCEPT !.set = v3, !.ver = s.ver + 1]

union_merge_no_size(s, v, root_a0, root_b0) ==
    LET swap == v[root_a0].size < v[root_b0].size
        root_a == IF swap THEN root_b0 ELSE root_a0
        root_b == IF swap THEN root_a0 ELSE root_b0
        v2 == [v EXCEPT ![root_b].parent = root_a]
    IN  [s EXCEPT !.set = v2,
                  !.subset_count = s.subset_count - 1,
                  !.ver = s.ver + 1]

union_merge_no_ver(s, v, root_a0, root_b0) ==
    LET swap == v[root_a0].size < v[root_b0].size
        root_a == IF swap THEN root_b0 ELSE root_a0
        root_b == IF swap THEN root_a0 ELSE root_b0
        v2 == [v EXCEPT ![root_b].parent = root_a]
        v3 == [v2 EXCEPT ![root_a].size = v2[root_a].size + v2[root_b].size]
    IN  [s EXCEPT !.set = v3, !.subset_count = s.subset_count - 1]

\* Mutant of union_merge: on equal sizes the roots are swapped too.
union_merge_tie(s, v, root_a0, root_b0) ==
    LET swap == v[root_a0].size <= v[root_b0].size
        root_a == IF swap THEN root_b0 ELSE root_a0
        root_b == IF swap THEN root_a0 ELSE root_b0
        v2 == [v EXCEPT ![root_b].parent = root_a]
        v3 == [v2 EXCEPT ![root_a].size = v2[root_a].size + v2[root_b].size]
    IN  [s EXCEPT !.set = v3,
                  !.subset_count = s.subset_count - 1,
                  !.ver = s.ver + 1]

\* Mutant of union_merge: the roots are swapped when root_a is the larger.
union_merge_small_wins(s, v, root_a0, root_b0) ==
    LET swap == v[root_a0].size > v[root_b0].size
        root_a == IF swap THEN root_b0 ELSE root_a0
        root_b == IF swap THEN root_a0 ELSE root_b0
        v2 == [v EXCEPT ![root_b].parent = root_a]
        v3 == [v2 EXCEPT ![root_a].size = v2[root_a].size + v2[root_b].size]
    IN  [s EXCEPT !.set = v3,
                  !.subset_count = s.subset_count - 1,
                  !.ver = s.ver + 1]

\* union, lines 50-60: the two roots differ
union_merge(s, v, root_a0, root_b0) ==
    LET swap == v[root_a0].size < v[root_b0].size
        root_a == IF swap THEN root_b0 ELSE root_a0
        root_b == IF swap THEN root_a0 ELSE root_b0
        v2 == [v EXCEPT ![root_b].parent = root_a]
        v3 == [v2 EXCEPT ![root_a].size = v2[root_a].size + v2[root_b].size]
    IN  [s EXCEPT !.set = v3,
                  !.subset_count = s.subset_count - 1,
                  !.ver = s.ver + 1]

\* Mutants of union: the roots are not compared before merging; elem_a is
\* compressed before elem_b is looked up.
union_no_root_check(s, elem_a, elem_b) ==
    LET a_i == index(s, elem_a)
        b_i == index(s, elem_b)
    IN  IF ~IsOk(a_i) THEN [self |-> s, ret |-> a_i]
        ELSE IF ~IsOk(b_i) THEN [self |-> s, ret |-> b_i]
        ELSE LET fa == find_internal(s.set, a_i.val)
                 fb == find_internal(fa.set, b_i.val)
             IN  [self |-> union_merge(s, fb.set, fa.root, fb.root),
                  ret |-> Ok(Unit0)]

union_compress_first(s, elem_a, elem_b) ==
    LET a_i == index(s, elem_a)
        b_i == index(s, elem_b)
    IN  IF ~IsOk(a_i) THEN [self |-> s, ret |-> a_i]
        ELSE LET fa == find_internal(s.set, a_i.val)
             IN  IF ~IsOk(b_i) THEN [self |-> [s EXCEPT !.set = fa.set], ret |-> b_i]
                 ELSE LET fb == find_internal(fa.set, b_i.val)
                      IN  IF fa.root # fb.root
                          THEN [self |-> union_merge(s, fb.set, fa.root, fb.root),
                                ret |-> Ok(Unit0)]
                          ELSE [self |-> [s EXCEPT !.set = fb.set], ret |-> Ok(Unit0)]

\* fn union(&mut self, elem_a, elem_b) -> Result<()>
union(s, elem_a, elem_b) ==
    LET a_i == index(s, elem_a)
        b_i == index(s, elem_b)
    IN  IF ~IsOk(a_i) THEN [self |-> s, ret |-> a_i]
        ELSE IF ~IsOk(b_i) THEN [self |-> s, ret |-> b_i]
        ELSE LET fa == find_internal(s.set, a_i.val)
                 fb == find_internal(fa.set, b_i.val)
             IN  IF fa.root # fb.root
                 THEN [self |-> union_merge(s, fb.set, fa.root, fb.root),
                       ret |-> Ok(Unit0)]
                 ELSE [self |-> [s EXCEPT !.set = fb.set], ret |-> Ok(Unit0)]

\* SubsetTicket { ver, id, set_id }
SubsetTicket(s, root) == [ver |-> s.ver, id |-> root, set_id |-> s.set_id]

\* SubsetTicket's equality: same instance, same version, same root index.
TicketEq(t1, t2) == t1.set_id = t2.set_id /\ t1.ver = t2.ver /\ t1.id = t2.id

\* fn find(&mut self, elem) -> Result<SubsetTicket<T>>
find(s, elem) ==
    LET i == index(s, elem)
    IN  IF ~IsOk(i) THEN [self |-> s, ret |-> i]
        ELSE LET f == find_internal(s.set, i.val)
                 s2 == [s EXCEPT !.set = f.set]
             IN  [self |-> s2, ret |-> Ok(SubsetTicket(s2, f.root))]

\* Mutant of same_subset: an element is taken to be with itself unseen.
same_subset_shortcut(s, elem_a, elem_b) ==
    LET a_i == index(s, elem_a)
        b_i == index(s, elem_b)
    IN  IF elem_a = elem_b THEN [self |-> s, ret |-> Ok(TRUE)]
        ELSE IF ~IsOk(a_i) THEN [self |-> s, ret |-> a_i]
        ELSE IF ~IsOk(b_i) THEN [self |-> s, ret |-> b_i]
        ELSE LET fa == find_internal(s.set, a_i.val)
                 fb == find_internal(fa.set, b_i.val)
             IN  [self |-> [s EXCEPT !.set = fb.set],
                  ret |-> Ok(fa.root = fb.root)]

\* fn same_subset(&mut self, elem_a, elem_b) -> Result<bool>
same_subset(s, elem_a, elem_b) ==
    LET a_i == index(s, elem_a)
        b_i == index(s, elem_b)
    IN  IF ~IsOk(a_i) THEN [self |-> s, ret |-> a_i]
        ELSE IF ~IsOk(b_i) THEN [self |-> s, ret |-> b_i]
        ELSE LET fa == find_internal(s.set, a_i.val)
                 fb == find_internal(fa.set, b_i.val)
             IN  [self |-> [s EXCEPT !.set = fb.set],
                  ret |-> Ok(fa.root = fb.root)]

\* fn subset_count(&self) -> usize
subset_count_fn(s) == s.subset_count

\* fn subset_size(&mut self, elem) -> Result<usize>
subset_size(s, elem) ==
    LET i == index(s, elem)
    IN  IF ~IsOk(i) THEN [self |-> s, ret |-> i]
        ELSE LET f == find_internal(s.set, i.val)
             IN  [self |-> [s EXCEPT !.set = f.set],
                  ret |-> Ok(f.set[f.root].size)]

\* Mutants of insert: the counter is not incremented; the new node is not
\* its own parent.
insert_no_count(s, elem) ==
    IF elem \notin DOMAIN s.map
    THEN [self |-> [s EXCEPT
                       !.map = MapInsert(s.map, elem, VecLen(s.set)),
                       !.set = Push(s.set, [size |-> 1, parent |-> VecLen(s.set)]),
                       !.ver = s.ver + 1],
          ret |-> Ok(Unit0)]
    ELSE [self |-> s, ret |-> Err(DuplicateElement)]

insert_parent_zero(s, elem) ==
    IF elem \notin DOMAIN s.map
    THEN [self |-> [s EXCEPT
                       !.map = MapInsert(s.map, elem, VecLen(s.set)),
                       !.set = Push(s.set, [size |-> 1, parent |-> 0]),
                       !.subset_count = s.subset_count + 1,
                       !.ver = s.ver + 1],
          ret |-> Ok(Unit0)]
    ELSE [self |-> s, ret |-> Err(DuplicateElement)]

insert_no_ver(s, elem) ==
    IF elem \notin DOMAIN s.map
    THEN [self |-> [s EXCEPT
                       !.map = MapInsert(s.map, elem, VecLen(s.set)),
                       !.set = Push(s.set, [size |-> 1, parent |-> VecLen(s.set)]),
                       !.subset_count = s.subset_count + 1],
          ret |-> Ok(Unit0)]
    ELSE [self |-> s, ret |-> Err(DuplicateElement)]

\* Mutants of insert: the parent of the new node is the length after the
\* push; the Unit is not pushed.
insert_parent_next(s, elem) ==
    IF elem \notin DOMAIN s.map
    THEN [self |-> [s EXCEPT
                       !.map = MapInsert(s.map, elem, VecLen(s.set)),
                       !.set = Push(s.set, [size |-> 1, parent |-> VecLen(s.set) + 1]),
                       !.subset_count = s.subset_count + 1,
                       !.ver = s.ver + 1],
          ret |-> Ok(Unit0)]
    ELSE [self |-> s, ret |-> Err(DuplicateElement)]

insert_no_push(s, elem) ==
    IF elem \notin DOMAIN s.map
    THEN [self |-> [s EXCEPT
                       !.map = MapInsert(s.map, elem, VecLen(s.set)),
                       !.subset_count = s.subset_count + 1,
                       !.ver = s.ver + 1],
          ret |-> Ok(Unit0)]
    ELSE [self |-> s, ret |-> Err(DuplicateElement)]

\* fn insert(&mut self, elem) -> Result<()>
insert(s, elem) ==
    IF elem \notin DOMAIN s.map
    THEN [self |-> [s EXCEPT
                       !.map = MapInsert(s.map, elem, VecLen(s.set)),
                       !.set = Push(s.set, [size |-> 1, parent |-> VecLen(s.set)]),
                       !.subset_count = s.subset_count + 1,
                       !.ver = s.ver + 1],
          ret |-> Ok(Unit0)]
    ELSE [self |-> s, ret |-> Err(DuplicateElement)]

\* the orders in which HashMap::iter may visit the entries of m
RECURSIVE Perms(_)
Perms(S) ==
    IF S = {} THEN {<<>>}
    ELSE UNION {{<<x>> \o p : p \in Perms(S \ {x})} : x \in S}
IterOrders(m) == Perms(DOMAIN m)

\* Mutant of containing_scan: the filter compares the element's parent.
RECURSIVE containing_scan_parent(_, _, _, _, _)
containing_scan_parent(m, v, root, order, subset) ==
    IF order = <<>> THEN [set |-> v, subset |-> subset]
    ELSE LET elem == Head(order)
         IN  containing_scan_parent(m, v, root, Tail(order),
                 IF root = v[m[elem]].parent THEN subset \cup {elem} ELSE subset)

\* Mutant of containing_scan: the scan stops at the first element outside
\* the subset (take_while for filter).
RECURSIVE containing_scan_take_while(_, _, _, _, _)
containing_scan_take_while(m, v, root, order, subset) ==
    IF order = <<>> THEN [set |-> v, subset |-> subset]
    ELSE LET elem == Head(order)
             f == find_internal(v, m[elem])
         IN  IF root = f.root
             THEN containing_scan_take_while(m, f.set, root, Tail(order),
                      subset \cup {elem})
             ELSE [set |-> f.set, subset |-> subset]

\* Mutant of containing_scan: the filter reads the element's parent link as
\* it stands before the element is resolved.
RECURSIVE containing_scan_stale(_, _, _, _, _)
containing_scan_stale(m, v, root, order, subset) ==
    IF order = <<>> THEN [set |-> v, subset |-> subset]
    ELSE LET elem == Head(order)
             f == find_internal(v, m[elem])
         IN  containing_scan_stale(m, f.set, root, Tail(order),
                 IF root = v[m[elem]].parent THEN subset \cup {elem} ELSE subset)

\* subset_containing, lines 83-89: the filter and for_each over self.map.iter()
RECURSIVE containing_scan(_, _, _, _, _)
containing_scan(m, v, root, order, subset) ==
    IF order = <<>> THEN [set |-> v, subset |-> subset]
    ELSE LET elem == Head(order)
             f == find_internal(v, m[elem])
         IN  containing_scan(m, f.set, root, Tail(order),
                 IF root = f.root THEN subset \cup {elem} ELSE subset)

\* fn subset_containing(&mut self, elem) -> Result<HashSet<&T>>
\* (order: the iteration order of self.map)
subset_containing(s, elem, order) ==
    LET i == index(s, elem)
    IN  IF ~IsOk(i) THEN [self |-> s, ret |-> i]
        ELSE LET f == find_internal(s.set, i.val)
             IN  IF s.subset_count = 0
                 THEN [self |-> [s EXCEPT !.set = f.set], ret |-> Panic]
                 ELSE LET r == containing_scan(s.map, f.set, f.root, order, {})
                      IN  [self |-> [s EXCEPT !.set = r.set], ret |-> Ok(r.subset)]

\* Mutant of all_scan: the element's parent is taken for its root.
RECURSIVE all_scan_parent(_, _, _, _, _)
all_scan_parent(m, v, order, subset_map, subsets) ==
    IF order = <<>> THEN [set |-> v, subsets |-> subsets]
    ELSE LET elem == Head(order)
             root == v[m[elem]].parent
             fresh == root \notin DOMAIN subset_map
             subsets1 == IF fresh THEN Append(subsets, {}) ELSE subsets
             subset_map1 == IF fresh
                            THEN MapInsert(subset_map, root, Len(subsets1) - 1)
                            ELSE subset_map
             entry == subset_map1[root]
         IN  all_scan_parent(m, v, Tail(order), subset_map1,
                 [subsets1 EXCEPT ![entry + 1] = @ \cup {elem}])

\* all_subsets, lines 99-107: the for_each over self.map.iter()
\* subset_map: root -> position in subsets (positions from 0, as in the Vec)
RECURSIVE all_scan(_, _, _, _, _)
all_scan(m, v, order, subset_map, subsets) ==
    IF order = <<>> THEN [set |-> v, subsets |-> subsets]
    ELSE LET elem == Head(order)
             f == find_internal(v, m[elem])
             fresh == f.root \notin DOMAIN subset_map
             subsets1 == IF fresh THEN Append(subsets, {}) ELSE subsets
             subset_map1 == IF fresh
                            THEN MapInsert(subset_map, f.root, Len(subsets1) - 1)
                            ELSE subset_map
             entry == subset_map1[f.root]
         IN  all_scan(m, f.set, Tail(order), subset_map1,
                 [subsets1 EXCEPT ![entry + 1] = @ \cup {elem}])

\* fn all_subsets(&mut self) -> Vec<HashSet<&T>>
\* (order: the iteration order of self.map; the division by subset_count
\* on line 95 panics when subset_count is 0)
all_subsets(s, order) ==
    IF s.subset_count = 0
    THEN [self |-> s, ret |-> Panic]
    ELSE LET r == all_scan(s.map, s.set, order, EmptyMap, <<>>)
         IN  [self |-> [s EXCEPT !.set = r.set], ret |-> Ok(r.subsets)]

\* The scans over every iteration order at once. The entries are visited one
\* at a time, as the iterator yields them: a scan that has visited some
\* entries goes on with any entry it has not visited (todo). Scans that have
\* visited the same entries and hold the same vector and the same collection
\* go on alike, so each such scan is carried once; with no entry left the
\* scans are the scans of all the orders of IterOrders.
containing_scan_entry(m, root, c, elem) ==
    LET r == containing_scan(m, c.set, root, <<elem>>, c.subset)
    IN  [set |-> r.set, subset |-> r.subset, todo |-> c.todo \ {elem}]

RECURSIVE containing_scan_any(_, _, _)
containing_scan_any(m, root, scans) ==
    IF \A c \in scans : c.todo = {}
    THEN {[set |-> c.set, subset |-> c.subset] : c \in scans}
    ELSE containing_scan_any(m, root,
             {containing_scan_entry(m, root, q[1], q[2]) :
                 q \in {q \in scans \X DOMAIN m : q[2] \in q[1].todo}})

\* subset_containing under every iteration order of self.map: the results
\* {subset_containing(s, elem, order) : order \in IterOrders(s.map)}
subset_containing_any(s, elem) ==
    LET i == index(s, elem)
    IN  IF ~IsOk(i) THEN {[self |-> s, ret |-> i]}
        ELSE LET f == find_internal(s.set, i.val)
             IN  IF s.subset_count = 0
                 THEN {[self |-> [s EXCEPT !.set = f.set], ret |-> Panic]}
                 ELSE {[self |-> [s EXCEPT !.set = r.set], ret |-> Ok(r.subset)] :
                          r \in containing_scan_any(s.map, f.root,
                                    {[set |-> f.set, subset |-> {},
                                      todo |-> DOMAIN s.map]})}

\* all_scan continued by one entry; unlike all_scan it hands subset_map on.
all_scan_entry(m, c, elem) ==
    LET r == all_scan(m, c.set, <<elem>>, c.subset_map, c.subsets)
        root == find_internal(c.set, m[elem]).root
    IN  [set |-> r.set,
         subsets |-> r.subsets,
         subset_map |-> IF root \notin DOMAIN c.subset_map
                        THEN MapInsert(c.subset_map, root, Len(r.subsets) - 1)
                        ELSE c.subset_map,
         todo |-> c.todo \ {elem}]

RECURSIVE all_scan_any(_, _)
all_scan_any(m, scans) ==
    IF \A c \in scans : c.todo = {}
    THEN {[set |-> c.set, subsets |-> c.subsets] : c \in scans}
    ELSE all_scan_any(m,
             {all_scan_entry(m, q[1], q[2]) :
                 q \in {q \in scans \X DOMAIN m : q[2] \in q[1].todo}})

\* all_subsets under every iteration order of self.map: the results
\* {all_subsets(s, order) : order \in IterOrders(s.map)}
all_subsets_any(s) ==
    IF s.subset_count = 0
    THEN {[self |-> s, ret |-> Panic]}
    ELSE {[self |-> [s EXCEPT !.set = r.set], ret |-> Ok(r.subsets)] :
             r \in all_scan_any(s.map, {[set |-> s.set, subset_map |-> EmptyMap,
                                         subsets |-> <<>>, todo |-> DOMAIN s.map]})}

\* Mutant of from_iter_scan: a repeated element is pushed again.
RECURSIVE from_iter_scan_repeat(_, _, _)
from_iter_scan_repeat(iter, m, v) ==
    IF iter = <<>> THEN [map |-> m, set |-> v]
    ELSE from_iter_scan_repeat(Tail(iter),
             MapInsert(m, Head(iter), VecLen(v)),
             Push(v, [size |-> 1, parent |-> VecLen(v)]))

\* from_iter, lines 158-170: the for_each over the input
RECURSIVE from_iter_scan(_, _, _)
from_iter_scan(iter, m, v) ==
    IF iter = <<>> THEN [map |-> m, set |-> v]
    ELSE LET elem == Head(iter)
         IN  IF elem \in DOMAIN m
             THEN from_iter_scan(Tail(iter), m, v)
             ELSE from_iter_scan(Tail(iter),
                      MapInsert(m, elem, VecLen(v)),
                      Push(v, [size |-> 1, parent |-> VecLen(v)]))

\* Mutant of from_iter: every instance gets the same set_id.
from_iter_fixed_id(iter, counter) ==
    LET r == from_iter_scan(iter, EmptyMap, EmptyVec)
    IN  [self |-> [ver |-> 0, map |-> r.map, set |-> r.set,
                   subset_count |-> Cardinality(DOMAIN r.map),
                   set_id |-> 0],
         SET_ID |-> counter + 1]

\* fn from_iter(iter) -> Self (counter: the value of SET_ID at the call)
from_iter(iter, counter) ==
    LET r == from_iter_scan(iter, EmptyMap, EmptyVec)
    IN  [self |-> [ver |-> 0, map |-> r.map, set |-> r.set,
                   subset_count |-> Cardinality(DOMAIN r.map),
                   set_id |-> counter],
         SET_ID |-> counter + 1]

\* Mutant of default: the empty instance counts one subset.
default_one_subset(counter) ==
    [self |-> [ver |-> 0, map |-> EmptyMap, set |-> EmptyVec,
               subset_count |-> 1, set_id |-> counter],
     SET_ID |-> counter + 1]

\* fn default() -> Self (counter: the value of SET_ID at the call)
default(counter) ==
    [self |-> [ver |-> 0, map |-> EmptyMap, set |-> EmptyVec,
               subset_count |-> 0, set_id |-> counter],
     SET_ID |-> counter + 1]

----------------------------------------------------------------------------
\* The element's resolved root, and the partition the forest induces.
root_of(s, elem) == find_internal(s.set, s.map[elem]).root
Registered(s) == DOMAIN s.map
forest_partition(s) ==
    {{y \in Registered(s) : root_of(s, y) = root_of(s, x)} : x \in Registered(s)}

\* The reference model: a partition of the registered elements.
model_class(p, x) == CHOOSE c \in p : x \in c
model_insert(p, x) == p \cup {{x}}
model_union(p, a, b) ==
    (p \ {model_class(p, a), model_class(p, b)})
        \cup {model_class(p, a) \cup model_class(p, b)}

\* No ticket kept yet (-1 is no element).
NoTicket == [elem |-> -1, ticket |-> [ver |-> 0, id |-> 0, set_id |-> 0]]

\* The inputs of from_iter: every sequence over Elems of length <= MaxLoad.
RECURSIVE SeqsUpTo(_)
SeqsUpTo(n) ==
    IF n = 0 THEN {<<>>}
    ELSE SeqsUpTo(n - 1) \cup
         {Append(q, x) : q \in {r \in SeqsUpTo(n - 1) : Len(r) = n - 1}, x \in Elems}
BulkInputs == SeqsUpTo(MaxLoad)

\* The instance in the variables becomes s.
Becomes(s) ==
    /\ ver' = s.ver
    /\ map' = s.map
    /\ set' = s.set
    /\ subset_count' = s.subset_count
    /\ set_id' = s.set_id

\* The state after construction, the first instance of the process.
InitWith(c) ==
    /\ ver = c.self.ver
    /\ map = c.self.map
    /\ set = c.self.set
    /\ subset_count = c.self.subset_count
    /\ set_id = c.self.set_id
    /\ SET_ID = c.SET_ID
    /\ ticket1 = NoTicket
    /\ changed = FALSE
    /\ model = {{x} : x \in DOMAIN c.self.map}

\* The threads that construct further instances, and their not-yet values.
Threads == {"t1", "t2"}
NoCall == [kind |-> "none", iter |-> <<>>]
NoInstance == [ver |-> 0, map |-> EmptyMap, set |-> EmptyVec,
               subset_count |-> 0, set_id |-> -1]
\* no thread constructs anything
Idle ==
    /\ pc = [t \in Threads |-> "idle"]
    /\ arg = [t \in Threads |-> NoCall]
    /\ inst = [t \in Threads |-> NoInstance]

InitInstance ==
    \/ InitWith(default(0))
    \/ \E iter \in BulkInputs : InitWith(from_iter(iter, 0))

Init == InitInstance /\ Idle

InsertStep(e) ==
    LET r == insert(self, e)
    IN  /\ Becomes(r.self)
        /\ changed' = (changed \/ IsOk(r.ret))
        /\ model' = IF IsOk(r.ret) THEN model_insert(model, e) ELSE model
        /\ UNCHANGED <<process, ticket1>>

UnionStep(a, b) ==
    LET r == union(self, a, b)
    IN  /\ Becomes(r.self)
        /\ changed' = (changed \/ (IsOk(r.ret) /\ root_of(self, a) # root_of(self, b)))
        /\ model' = IF IsOk(r.ret) THEN model_union(model, a, b) ELSE model
        /\ UNCHANGED <<process, ticket1>>

\* find whose ticket the caller drops
FindStep(e) ==
    /\ Becomes(find(self, e).self)
    /\ UNCHANGED <<process, ticket1, changed, model>>

\* find whose ticket the caller keeps (let ticket1 = set.find(..).unwrap())
FindKeepStep(e) ==
    LET r == find(self, e)
    IN  /\ IsOk(r.ret)
        /\ Becomes(r.self)
        /\ ticket1' = [elem |-> e, ticket |-> r.ret.val]
        /\ changed' = FALSE
        /\ UNCHANGED <<process, model>>

SameSubsetStep(a, b) ==
    /\ Becomes(same_subset(self, a, b).self)
    /\ UNCHANGED <<process, ticket1, changed, model>>

SubsetSizeStep(e) ==
    /\ Becomes(subset_size(self, e).self)
    /\ UNCHANGED <<process, ticket1, changed, model>>

SubsetCountStep ==
    /\ subset_count_fn(self) = subset_count
    /\ UNCHANGED vars

SubsetContainingStep(e) ==
    \E order \in IterOrders(map) :
        /\ Becomes(subset_containing(self, e, order).self)
        /\ UNCHANGED <<process, ticket1, changed, model>>

AllSubsetsStep ==
    \E order \in IterOrders(map) :
        /\ Becomes(all_subsets(self, order).self)
        /\ UNCHANGED <<process, ticket1, changed, model>>

\* The same two steps, the iteration orders taken through
\* subset_containing_any and all_subsets_any (for maps whose orders are too
\* many to list as sequences).
SubsetContainingAnyStep(e) ==
    \E r \in subset_containing_any(self, e) :
        /\ Becomes(r.self)
        /\ UNCHANGED <<process, ticket1, changed, model>>

AllSubsetsAnyStep ==
    \E r \in all_subsets_any(self) :
        /\ Becomes(r.self)
        /\ UNCHANGED <<process, ticket1, changed, model>>

\* SET_ID.fetch_add(1, Ordering::SeqCst): the value stored
fetch_add(counter) == counter + 1

\* The first half of default() run by thread t: the struct is built with
\* set_id: SET_ID.load(SeqCst); the fetch_add of line 145 is a later step.
DefaultLoadStep(t) ==
    /\ pc[t] = "start"
    /\ arg' = [arg EXCEPT ![t] = [kind |-> "default", iter |-> <<>>]]
    /\ inst' = [inst EXCEPT ![t] = default(SET_ID).self]
    /\ pc' = [pc EXCEPT ![t] = "loaded"]
    /\ UNCHANGED <<ver, map, set, subset_count, set_id, SET_ID,
                   ticket1, changed, model>>

\* The first half of from_iter(iter) run by thread t: the map and the forest
\* are filled and the struct is built with set_id: SET_ID.load(SeqCst); the
\* fetch_add of line 179 is a later step.
FromIterLoadStep(t, iter) ==
    /\ pc[t] = "start"
    /\ arg' = [arg EXCEPT ![t] = [kind |-> "from_iter", iter |-> iter]]
    /\ inst' = [inst EXCEPT ![t] = from_iter(iter, SET_ID).self]
    /\ pc' = [pc EXCEPT ![t] = "loaded"]
    /\ UNCHANGED <<ver, map, set, subset_count, set_id, SET_ID,
                   ticket1, changed, model>>

\* The second half of either constructor: SET_ID.fetch_add(1), then return.
FetchAddStep(t) ==
    /\ pc[t] = "loaded"
    /\ SET_ID' = fetch_add(SET_ID)
    /\ pc' = [pc EXCEPT ![t] = "done"]
    /\ UNCHANGED <<ver, map, set, subset_count, set_id, arg, inst,
                   ticket1, changed, model>>

\* One instance and a caller that keeps no ticket.
Next ==
    \/ \E e \in Elems : InsertStep(e)
    \/ \E a, b \in Lookups : UnionStep(a, b)
    \/ \E e \in Lookups : FindStep(e)
    \/ \E a, b \in Lookups : SameSubsetStep(a, b)
    \/ \E e \in Lookups : SubsetSizeStep(e)
    \/ SubsetCountStep
    \/ \E e \in Lookups : SubsetContainingStep(e)
    \/ AllSubsetsStep

Spec == Init /\ [][Next]_vars

\* One instance and a caller that keeps the ticket of some of its finds.
\* (The other queries change the forest only through find_internal, as find
\* does, and are left to Spec.)
NextTicket ==
    \/ \E e \in Elems : InsertStep(e)
    \/ \E a, b \in Lookups : UnionStep(a, b)
    \/ \E e \in Lookups : FindStep(e)
    \/ \E e \in Lookups : FindKeepStep(e)

SpecTicket == Init /\ [][NextTicket]_vars

\* The inputs of a later from_iter call: sequences of length <= MaxIter.
CtorInputs == SeqsUpTo(MaxIter)

\* A first instance, then one more constructor call in the same thread of
\* control (the second instance is created after the first).
InitSeq ==
    /\ InitInstance
    /\ pc = [t \in Threads |-> IF t = "t1" THEN "start" ELSE "idle"]
    /\ arg = [t \in Threads |-> NoCall]
    /\ inst = [t \in Threads |-> NoInstance]

NextSeq ==
    \/ \E t \in Threads : DefaultLoadStep(t)
    \/ \E t \in Threads : \E iter \in CtorInputs : FromIterLoadStep(t, iter)
    \/ \E t \in Threads : FetchAddStep(t)

SpecSeq == InitSeq /\ [][NextSeq]_vars

\* A first instance, then two threads that each construct one instance,
\* their loads and fetch_adds interleaved in every order.
InitRace ==
    /\ InitWith(default(0))
    /\ pc = [t \in Threads |-> "start"]
    /\ arg = [t \in Threads |-> NoCall]
    /\ inst = [t \in Threads |-> NoInstance]

NextRace ==
    \/ \E t \in Threads : DefaultLoadStep(t)
    \/ \E t \in Threads : \E iter \in BulkInputs : FromIterLoadStep(t, iter)
    \/ \E t \in Threads : FetchAddStep(t)

SpecRace == InitRace /\ [][NextRace]_vars

\* One instance of PathElems elements, registered in order, that is merged
\* and looked up: eight elements are the fewest whose forest can hold a node
\* three links below its root.
PathInput == [i \in 1..PathElems |-> i]
InitPath == InitWith(from_iter(PathInput, 0)) /\ Idle

\* The arguments of union are bounded here (union and find over all pairs
\* of eight elements reach more forests than can be enumerated): the caller
\* merges neighbouring blocks of equal length (1-2, 3-4, 1-3, .., 1-5), the
\* merges that grow the deepest tree,
MergePairs ==
    {q \in (1..PathElems) \X (1..PathElems) :
        \E k \in 0..PathElems :
            q[2] - q[1] = 2 ^ k /\ (q[1] - 1) % (2 ^ (k + 1)) = 0}
\* the calls of the test path_compression_find, union(s, e), union(t, T) and
\* union(e, T) on "This is a test." (T, s, t, e are its elements 1, 4, 7, 8),
TestPairs == {<<4, 8>>, <<7, 1>>, <<8, 1>>}
\* and the block merges with the arguments in either order. find takes any
\* element.
PathPairs == MergePairs \cup {<<q[2], q[1]>> : q \in MergePairs} \cup TestPairs

NextPath ==
    \/ \E q \in PathPairs : UnionStep(q[1], q[2])
    \/ \E e \in 1..PathElems : FindStep(e)

SpecPath == InitPath /\ [][NextPath]_vars

\* An instance of MaxElem or of PathElems elements under a caller that merges
\* blocks (the pairs of MergePairs only, first argument the lower block) and
\* asks for subsets: subset_containing of any element and all_subsets, the
\* map iterated in any order.
InitScan ==
    \E n \in {MaxElem, PathElems} :
        InitWith(from_iter([i \in 1..n |-> i], 0)) /\ Idle

NextScan ==
    \/ \E q \in MergePairs : UnionStep(q[1], q[2])
    \/ \E e \in 1..PathElems : SubsetContainingAnyStep(e)
    \/ AllSubsetsAnyStep

SpecScan == InitScan /\ [][NextScan]_vars

\* The same instance under a caller that first merges blocks (the pairs of
\* MergePairs only, first argument the lower block), then looks one element
\* up (keeping the ticket) and from then on repeats that lookup and nothing
\* else; the caller does go on repeating it.
MergeStep(a, b) == ticket1 = NoTicket /\ UnionStep(a, b)
FirstFindStep(e) == ticket1 = NoTicket /\ FindKeepStep(e)
RepeatFindStep == ticket1 # NoTicket /\ FindKeepStep(ticket1.elem)

NextRepeat ==
    \/ \E q \in MergePairs : MergeStep(q[1], q[2])
    \/ \E e \in 1..PathElems : FirstFindStep(e)
    \/ RepeatFindStep

SpecRepeat == InitPath /\ [][NextRepeat]_vars /\ WF_vars(RepeatFindStep)

----------------------------------------------------------------------------
\* Helpers of the properties.
Roots(s) == {i \in DOMAIN s.set : s.set[i].parent = i}
Members(s, r) == {y \in Registered(s) : root_of(s, y) = r}
RECURSIVE SumSizes(_, _)
SumSizes(v, R) ==
    IF R = {} THEN 0
    ELSE LET r == CHOOSE r \in R : TRUE IN v[r].size + SumSizes(v, R \ {r})
\* the number of parent links from node i to its root
RECURSIVE Depth(_, _)
Depth(v, i) == IF v[i].parent = i THEN 0 ELSE 1 + Depth(v, v[i].parent)
Deep(s) == {x \in Registered(s) : Depth(s.set, s.map[x]) >= 2}

\* C1: the partition the forest induces (same root under find_internal) is
\* the partition of the reference model, which starts from singletons and
\* merges the classes of a and b on each successful union(a, b); and right
\* after any successful union(a, b), same_subset(a, b) returns true.
C1_PartitionRefinesModel ==
    /\ forest_partition(self) = model
    /\ \A a, b \in Lookups :
          LET r == union(self, a, b)
          IN  IsOk(r.ret) => same_subset(r.self, a, b).ret = Ok(TRUE)

\* C1 witness: two merging unions have built a class of three beside another
\* class, one more union is possible, and it puts its arguments together.
C1_Witness ==
    /\ \E c \in model : Cardinality(c) = 3
    /\ Cardinality(model) = 2
    /\ forest_partition(self) = model
    /\ \E a, b \in Registered(self) :
          /\ root_of(self, a) # root_of(self, b)
          /\ same_subset(union(self, a, b).self, a, b).ret = Ok(TRUE)

\* C2: union count law. For registered a and b, subset_count() after
\* union(a, b) is subset_count() before, minus 1 when a and b were in
\* different subsets and minus 0 when they were in the same subset.
C2_UnionCountLaw ==
    \A a, b \in Registered(self) :
        subset_count_fn(union(self, a, b).self) =
            subset_count_fn(self)
                - (IF same_subset(self, a, b).ret = Ok(FALSE) THEN 1 ELSE 0)

\* C2 witness: after an earlier merge, a state offering both cases: a pair in
\* different subsets whose union lowers the count by one, and a pair of
\* distinct elements of one subset whose union leaves it.
C2_Witness ==
    /\ subset_count < Cardinality(Registered(self))
    /\ \E a, b \in Registered(self) :
          /\ same_subset(self, a, b).ret = Ok(FALSE)
          /\ subset_count_fn(union(self, a, b).self) = subset_count - 1
    /\ \E a, b \in Registered(self) :
          /\ a # b
          /\ same_subset(self, a, b).ret = Ok(TRUE)
          /\ subset_count_fn(union(self, a, b).self) = subset_count

\* C3: size conservation. The size stored at every root is the number of
\* registered elements that resolve to it, subset_size of any element
\* returns that number, and the sizes of all roots add up to the number of
\* registered elements.
C3_SizeConservation ==
    /\ \A r \in Roots(self) : set[r].size = Cardinality(Members(self, r))
    /\ \A x \in Registered(self) :
          subset_size(self, x).ret = Ok(Cardinality(Members(self, root_of(self, x))))
    /\ SumSizes(set, Roots(self)) = Cardinality(Registered(self))

\* C3 witness: a root of size 4 with a member two links below it, reached by
\* three merging unions.
C3_Witness ==
    /\ \E r \in Roots(self) : set[r].size = 4 /\ Cardinality(Members(self, r)) = 4
    /\ Deep(self) # {}

\* C4: the maintained subset_count is the number of roots of the forest.
C4_CountIsRoots == subset_count_fn(self) = Cardinality(Roots(self))

\* C4 witness: inserts and a merge have happened and several roots remain.
C4_Witness ==
    /\ ver > 0
    /\ subset_count = 2
    /\ VecLen(set) = 4
    /\ Cardinality(Roots(self)) = 2

\* C5: ticket equality law. For the ticket kept from an earlier find(x) and
\* the ticket of a find(y) made now, the tickets are equal iff x and y are in
\* the same subset and both calls saw the same version; and the versions are
\* the same iff no successful insert and no merging union came in between.
C5_TicketEqualityLaw ==
    ticket1 # NoTicket =>
        \A y \in Registered(self) :
            LET t2 == find(self, y).ret.val
            IN  /\ TicketEq(ticket1.ticket, t2) <=>
                      /\ same_subset(self, ticket1.elem, y).ret = Ok(TRUE)
                      /\ ticket1.ticket.ver = t2.ver
                /\ (ticket1.ticket.ver = t2.ver) <=> ~changed

\* C5 witness: a ticket was kept for x, then a union merged another subset
\* into x's, so that x still resolves to the root index in the ticket and has
\* a companion y, and yet find(y) is a different ticket.
C5_Witness ==
    /\ ticket1 # NoTicket
    /\ changed
    /\ ticket1.ticket.id = root_of(self, ticket1.elem)
    /\ \E y \in Registered(self) :
          /\ y # ticket1.elem
          /\ same_subset(self, ticket1.elem, y).ret = Ok(TRUE)
          /\ ~TicketEq(ticket1.ticket, find(self, y).ret.val)

\* C6, every call: insert adds 1 to ver iff it succeeds; union adds 1 iff it
\* succeeds on elements of different subsets; find, same_subset, subset_size,
\* subset_containing and all_subsets (any iteration order) leave ver, as do
\* no-op unions and failed calls; and the tickets of one element taken right
\* before and right after a successful insert or a merging union differ.
C6_VersionPerCall ==
    /\ \A e \in Lookups :
          LET r == insert(self, e)
          IN  /\ r.self.ver = ver + (IF IsOk(r.ret) THEN 1 ELSE 0)
              /\ IsOk(r.ret) =>
                    \A x \in Registered(self) :
                        ~TicketEq(find(self, x).ret.val, find(r.self, x).ret.val)
    /\ \A a, b \in Lookups :
          LET r == union(self, a, b)
              merging == IsOk(r.ret) /\ same_subset(self, a, b).ret = Ok(FALSE)
          IN  /\ r.self.ver = ver + (IF merging THEN 1 ELSE 0)
              /\ merging =>
                    \A x \in Registered(self) :
                        ~TicketEq(find(self, x).ret.val, find(r.self, x).ret.val)
    /\ \A e \in Lookups :
          /\ find(self, e).self.ver = ver
          /\ subset_size(self, e).self.ver = ver
          /\ \A order \in IterOrders(map) :
                subset_containing(self, e, order).self.ver = ver
    /\ \A a, b \in Lookups : same_subset(self, a, b).self.ver = ver
    /\ \A order \in IterOrders(map) : all_subsets(self, order).self.ver = ver

\* C6, every step: ver never decreases, and it grows by exactly 1 when the
\* step registers an element or merges two subsets (a root stops being a
\* root), and by 0 otherwise.
C6_VersionStep ==
    /\ ver' >= ver
    /\ ver' = ver + (IF \/ Registered(self)' # Registered(self)
                        \/ Roots(self)' # Roots(self)
                     THEN 1 ELSE 0)

\* C6: the version counter counts the structural mutations and nothing else.
C6_VersionCountsMutations == []C6_VersionPerCall /\ [][C6_VersionStep]_vars

\* C6 witness: inserts and merging unions have both raised ver, and both a
\* further insert and a further merging union are possible.
C6_Witness ==
    /\ Cardinality(Registered(self)) - subset_count >= 1
    /\ ver > Cardinality(Registered(self)) - subset_count
    /\ insert(self, Absent).self.ver = ver + 1
    /\ \E a, b \in Registered(self) :
          /\ same_subset(self, a, b).ret = Ok(FALSE)
          /\ union(self, a, b).self.ver = ver + 1

\* C7: no-op union. For registered a and b of one subset (a = b included),
\* union(a, b) succeeds and changes neither subset_count, nor ver, nor the
\* registry, nor the set of roots, nor any root's size, nor any element's
\* resolved root; find(x) before and find(x) after are equal tickets.
C7_NoOpUnion ==
    \A a, b \in Registered(self) :
        same_subset(self, a, b).ret = Ok(TRUE) =>
            LET r == union(self, a, b)
            IN  /\ r.ret = Ok(Unit0)
                /\ r.self.subset_count = subset_count
                /\ r.self.ver = ver
                /\ r.self.map = map
                /\ Roots(r.self) = Roots(self)
                /\ \A i \in Roots(self) : r.self.set[i].size = set[i].size
                /\ \A x \in Registered(self) :
                      /\ root_of(r.self, x) = root_of(self, x)
                      /\ TicketEq(find(self, x).ret.val, find(r.self, x).ret.val)

\* C7 witness: a lies two links below its root and b is another element of
\* the same subset: union(a, b) is a no-op that still splits a's path.
C7_Witness ==
    \E a \in Deep(self) : \E b \in Registered(self) :
        /\ a # b
        /\ same_subset(self, a, b).ret = Ok(TRUE)
        /\ union(self, a, b).ret = Ok(Unit0)
        /\ union(self, a, b).self.set # set
        /\ union(self, a, b).self.ver = ver

\* C8: a call that returns an error leaves the whole struct as it was: insert
\* with DuplicateElement, and union, find, same_subset, subset_size and
\* subset_containing with ElementNotDefined (so union(a, b) with b
\* unregistered does not split a's path).
C8_FailureChangesNothing ==
    /\ \A e \in Lookups :
          /\ IsErr(insert(self, e).ret, DuplicateElement) => insert(self, e).self = self
          /\ IsErr(find(self, e).ret, ElementNotDefined) => find(self, e).self = self
          /\ IsErr(subset_size(self, e).ret, ElementNotDefined) =>
                subset_size(self, e).self = self
          /\ \A order \in IterOrders(map) :
                IsErr(subset_containing(self, e, order).ret, ElementNotDefined) =>
                    subset_containing(self, e, order).self = self
    /\ \A a, b \in Lookups :
          /\ IsErr(union(self, a, b).ret, ElementNotDefined) => union(self, a, b).self = self
          /\ IsErr(same_subset(self, a, b).ret, ElementNotDefined) =>
                same_subset(self, a, b).self = self

\* C8 witness: a lies two links below its root, so find(a) rewrites the
\* forest; union(a, Absent) and union(Absent, a) fail and rewrite nothing, and
\* insert(a) fails with DuplicateElement.
C8_Witness ==
    \E a \in Deep(self) :
        /\ find(self, a).self # self
        /\ IsErr(union(self, a, Absent).ret, ElementNotDefined)
        /\ union(self, a, Absent).self = self
        /\ IsErr(union(self, Absent, a).ret, ElementNotDefined)
        /\ IsErr(insert(self, a).ret, DuplicateElement)

\* C9: union(a, b) and same_subset(a, b) return ElementNotDefined iff a or b
\* is unregistered, and succeed otherwise; find(e), subset_size(e) and
\* subset_containing(e) return ElementNotDefined iff e is unregistered, and
\* succeed otherwise.
C9_ErrorIffUnregistered ==
    /\ \A a, b \in Lookups :
          LET bad == a \notin Registered(self) \/ b \notin Registered(self)
          IN  /\ IsErr(union(self, a, b).ret, ElementNotDefined) <=> bad
              /\ IsOk(union(self, a, b).ret) <=> ~bad
              /\ IsErr(same_subset(self, a, b).ret, ElementNotDefined) <=> bad
              /\ IsOk(same_subset(self, a, b).ret) <=> ~bad
    /\ \A e \in Lookups :
          LET bad == e \notin Registered(self)
          IN  /\ IsErr(find(self, e).ret, ElementNotDefined) <=> bad
              /\ IsOk(find(self, e).ret) <=> ~bad
              /\ IsErr(subset_size(self, e).ret, ElementNotDefined) <=> bad
              /\ IsOk(subset_size(self, e).ret) <=> ~bad
              /\ \A order \in IterOrders(map) :
                    /\ IsErr(subset_containing(self, e, order).ret, ElementNotDefined) <=> bad
                    /\ IsOk(subset_containing(self, e, order).ret) <=> ~bad

\* C9 witness: with a registered and u, Absent unregistered, the calls fail on
\* the left, on the right, on both sides and on the same unregistered
\* element twice, and succeed on a.
C9_Witness ==
    \E a \in Registered(self) : \E u \in Elems \ Registered(self) :
        /\ ver > 0
        /\ IsErr(union(self, u, a).ret, ElementNotDefined)
        /\ IsErr(union(self, a, u).ret, ElementNotDefined)
        /\ IsErr(union(self, u, Absent).ret, ElementNotDefined)
        /\ IsErr(same_subset(self, Absent, Absent).ret, ElementNotDefined)
        /\ IsErr(find(self, u).ret, ElementNotDefined)
        /\ IsOk(union(self, a, a).ret)
        /\ IsOk(find(self, a).ret)

\* C10: insert(e) returns DuplicateElement iff e is registered; otherwise it
\* succeeds, gives e the index that was the length of the forest, pushes a
\* node of size 1 that is its own parent, adds 1 to subset_count and to ver,
\* and right afterwards subset_size(e) is 1 and subset_containing(e) is {e}.
C10_Insert ==
    \A e \in Lookups :
        LET r == insert(self, e)
            n == VecLen(set)
        IN  /\ IsErr(r.ret, DuplicateElement) <=> e \in Registered(self)
            /\ e \notin Registered(self) =>
                  /\ r.ret = Ok(Unit0)
                  /\ r.self.map = MapInsert(map, e, n)
                  /\ VecLen(r.self.set) = n + 1
                  /\ r.self.set[n] = [size |-> 1, parent |-> n]
                  /\ r.self.subset_count = subset_count + 1
                  /\ r.self.ver = ver + 1
                  /\ subset_size(r.self, e).ret = Ok(1)
                  /\ \A order \in IterOrders(r.self.map) :
                        subset_containing(r.self, e, order).ret = Ok({e})

\* C10 witness: after merges, the element registered last by insert sits at
\* the last index as a singleton root; inserting it again fails and
\* inserting Absent would succeed at the next index.
C10_Witness ==
    \E e \in Registered(self) :
        /\ ver > Cardinality(Registered(self)) - subset_count
        /\ subset_count < Cardinality(Registered(self))
        /\ map[e] = VecLen(set) - 1
        /\ set[map[e]] = [size |-> 1, parent |-> map[e]]
        /\ IsErr(insert(self, e).ret, DuplicateElement)
        /\ insert(self, Absent).self.map[Absent] = VecLen(set)

----------------------------------------------------------------------------
\* The instance s as it is, or after one more successful or failed mutation,
\* and the tickets find can issue for it then.
After1(s) ==
    {s} \cup {union(s, a, b).self : a, b \in Registered(s)}
        \cup {insert(s, e).self : e \in Elems}
Tickets(s) == {find(s2, x).ret.val : <<s2, x>> \in
                 {<<s3, y>> \in After1(s) \X Elems : y \in Registered(s3)}}

\* C11: a ticket issued by one instance never equals a ticket issued by an
\* instance created after it in the same process, whatever the two were
\* built from and whatever version and root index the tickets carry.
C11_InstanceIsolation ==
    \A t \in Threads :
        pc[t] = "done" =>
            \A ta \in Tickets(self), tb \in Tickets(inst[t]) :
                ~TicketEq(ta, tb) /\ ~TicketEq(tb, ta)

\* Both instances were built from the same elements, and some element's
\* tickets carry the same version and the same root index in both.
C11_Witness ==
    /\ pc["t1"] = "done"
    /\ arg["t1"].kind = "from_iter"
    /\ inst["t1"].map = map
    /\ inst["t1"].set = set
    /\ \E x \in Registered(self) :
          LET ta == find(self, x).ret.val
              tb == find(inst["t1"], x).ret.val
          IN  /\ ta.ver = tb.ver
              /\ ta.id = tb.id
              /\ ~TicketEq(ta, tb)

\* C12: two instances constructed by two threads at the same time get
\* different set_id values, so that their tickets never compare equal,
\* under every interleaving of the threads' loads and fetch_adds.
C12_ConcurrentIdsDistinct ==
    \A t, u \in Threads :
        (t # u /\ pc[t] = "done" /\ pc[u] = "done") =>
            inst[t].set_id # inst[u].set_id

\* C13: all_subsets never fails: on every instance, the empty one
\* (subset_count = 0) included, it returns a sequence of subsets, and on the
\* empty instance that sequence is empty.
C13_AllSubsetsNeverFails ==
    \A order \in IterOrders(map) :
        LET r == all_subsets(self, order)
        IN  /\ IsOk(r.ret)
            /\ Registered(self) = {} => r.ret.val = <<>>

\* C14: on an instance with at least one registered element, all_subsets
\* returns exactly the partition: subset_count sets, each non-empty, pairwise
\* disjoint, together all registered elements, and two elements share a
\* returned set iff same_subset reports true for them.
C14_AllSubsetsIsPartition ==
    Registered(self) # {} =>
        \A order \in IterOrders(map) :
            LET r == all_subsets(self, order)
                subsets == r.ret.val
                I == 1..Len(subsets)
            IN  /\ IsOk(r.ret)
                /\ Len(subsets) = subset_count
                /\ \A i \in I : subsets[i] # {}
                /\ \A i, j \in I : i # j => subsets[i] \cap subsets[j] = {}
                /\ UNION {subsets[i] : i \in I} = Registered(self)
                /\ \A x, y \in Registered(self) :
                      (\E i \in I : x \in subsets[i] /\ y \in subsets[i])
                          <=> same_subset(self, x, y).ret = Ok(TRUE)

\* Several subsets, one of them merged from three elements: all_subsets
\* returns one set per subset.
C14_Witness ==
    /\ subset_count >= 2
    /\ \E order \in IterOrders(map) :
          LET r == all_subsets(self, order)
          IN  /\ IsOk(r.ret)
              /\ Len(r.ret.val) = subset_count
              /\ \E i \in 1..Len(r.ret.val) : Cardinality(r.ret.val[i]) >= 3

\* C15: for a registered element e, subset_containing(e) returns exactly the
\* elements whose root is e's root; the set contains e and has as many
\* elements as subset_size(e) reports.
C15_SubsetContaining ==
    \A e \in Registered(self) :
        \A order \in IterOrders(map) :
            LET r == subset_containing(self, e, order)
            IN  /\ r.ret = Ok(Members(self, root_of(self, e)))
                /\ e \in r.ret.val
                /\ subset_size(self, e).ret = Ok(Cardinality(r.ret.val))

\* e is not a root and its subset holds another element d two links below
\* the root: subset_containing(e) returns both.
C15_Witness ==
    \E e \in Registered(self), d \in Deep(self) :
        /\ d # e
        /\ set[map[e]].parent # map[e]
        /\ \E order \in IterOrders(map) :
              LET r == subset_containing(self, e, order)
              IN  /\ IsOk(r.ret)
                  /\ d \in r.ret.val
                  /\ e \in r.ret.val

\* the elements of a sequence, and the position of an element's first
\* occurrence counted among the distinct elements (from 0)
Range(q) == {q[i] : i \in DOMAIN q}
FirstAt(q, x) == CHOOSE i \in DOMAIN q : q[i] = x /\ \A j \in 1..(i - 1) : q[j] # x
Rank(q, x) == Cardinality({q[j] : j \in 1..(FirstAt(q, x) - 1)})

\* C16: from_iter never fails, whatever the input and its repeats: exactly
\* the distinct elements of the input are registered, each a singleton
\* subset of size 1 that is its own root, indexed in the order of first
\* occurrence; subset_count is the number of distinct elements and the
\* version is 0.
C16_BulkLoad ==
    \A t \in Threads :
        (pc[t] = "done" /\ arg[t].kind = "from_iter") =>
            LET s == inst[t]
                iter == arg[t].iter
            IN  /\ Registered(s) = Range(iter)
                /\ DOMAIN s.set = 0..(Cardinality(Range(iter)) - 1)
                /\ \A x \in Range(iter) :
                      /\ s.map[x] = Rank(iter, x)
                      /\ s.set[s.map[x]] = [size |-> 1, parent |-> s.map[x]]
                      /\ subset_size(s, x).ret = Ok(1)
                      /\ \A y \in Range(iter) :
                            same_subset(s, x, y).ret = Ok(x = y)
                /\ s.subset_count = Cardinality(Range(iter))
                /\ subset_count_fn(s) = Cardinality(Range(iter))
                /\ s.ver = 0

\* An input of three elements whose first element comes again after a
\* different one: two elements are registered, in the order they first came.
C16_Witness ==
    /\ pc["t1"] = "done"
    /\ arg["t1"].kind = "from_iter"
    /\ Len(arg["t1"].iter) = 3
    /\ arg["t1"].iter[1] = arg["t1"].iter[3]
    /\ arg["t1"].iter[1] > arg["t1"].iter[2]
    /\ inst["t1"].subset_count = 2
    /\ inst["t1"].map[arg["t1"].iter[1]] = 0
    /\ inst["t1"].map[arg["t1"].iter[2]] = 1

\* C17: default() yields an instance with no element, subset_count 0 and
\* version 0, on which every lookup fails with ElementNotDefined and any
\* insert succeeds.
C17_Empty ==
    \A t \in Threads :
        (pc[t] = "done" /\ arg[t].kind = "default") =>
            LET s == inst[t]
            IN  /\ Registered(s) = {}
                /\ s.set = EmptyVec
                /\ subset_count_fn(s) = 0
                /\ s.ver = 0
                /\ \A x, y \in Lookups :
                      /\ IsErr(find(s, x).ret, ElementNotDefined)
                      /\ IsErr(subset_size(s, x).ret, ElementNotDefined)
                      /\ IsErr(same_subset(s, x, y).ret, ElementNotDefined)
                      /\ IsErr(union(s, x, y).ret, ElementNotDefined)
                      /\ IsErr(subset_containing(s, x, <<>>).ret, ElementNotDefined)
                /\ \A x \in Lookups :
                      LET r == insert(s, x)
                      IN  /\ r.ret = Ok(Unit0)
                          /\ Registered(r.self) = {x}
                          /\ r.self.subset_count = 1

\* The second constructor call was default() and has returned, after a
\* first instance that holds elements.
C17_Witness ==
    /\ pc["t1"] = "done"
    /\ arg["t1"].kind = "default"
    /\ inst["t1"].subset_count = 0
    /\ inst["t1"].set_id = 1
    /\ Registered(self) # {}
    /\ IsOk(insert(inst["t1"], 1).ret)

\* C18: when union(a, b) merges two distinct roots ra (of a) and rb (of b),
\* the root of the strictly smaller subset is attached under the root of the
\* larger one, and on equal sizes rb is attached under ra; the surviving
\* root's size becomes the sum of the two sizes and it remains a root.
C18_UnionBySize ==
    \A a, b \in Registered(self) :
        LET root_a == find_internal(set, map[a]).root
            root_b == find_internal(set, map[b]).root
            r == union(self, a, b).self
            sum == set[root_a].size + set[root_b].size
            winner == IF set[root_a].size < set[root_b].size THEN root_b ELSE root_a
            loser == IF set[root_a].size < set[root_b].size THEN root_a ELSE root_b
        IN  root_a # root_b =>
                /\ r.set[loser].parent = winner
                /\ r.set[winner].parent = winner
                /\ r.set[winner].size = sum
                /\ r.set[loser].size = set[loser].size

\* Both cases happen in one state: a subset of two elements and two
\* singletons, so that some union attaches a's smaller root under b's, and
\* another meets equal sizes and attaches b's root under a's.
C18_Witness ==
    /\ \E a, b \in Registered(self) :
          LET root_a == root_of(self, a)
              root_b == root_of(self, b)
              r == union(self, a, b).self
          IN  /\ set[root_a].size < set[root_b].size
              /\ r.set[root_a].parent = root_b
    /\ \E a, b \in Registered(self) :
          LET root_a == root_of(self, a)
              root_b == root_of(self, b)
              r == union(self, a, b).self
          IN  /\ root_a # root_b
              /\ root_a > root_b
              /\ set[root_a].size = set[root_b].size
              /\ r.set[root_b].parent = root_a

\* What a caller can observe of s is the same in s2: the registry, the
\* counter, the version, the identity, every node's resolved root and size,
\* and the parent of every root.
SameObservable(s, s2) ==
    /\ s2.map = s.map
    /\ s2.subset_count = s.subset_count
    /\ s2.ver = s.ver
    /\ s2.set_id = s.set_id
    /\ DOMAIN s2.set = DOMAIN s.set
    /\ \A i \in DOMAIN s.set :
          /\ find_internal(s2.set, i).root = find_internal(s.set, i).root
          /\ s2.set[i].size = s.set[i].size
    /\ \A r \in Roots(s) : s2.set[r].parent = r

\* C19: path compression is never observable: find, same_subset,
\* subset_size, subset_containing, all_subsets and the two lookups that
\* open union leave every element's resolved root, every root's parent and
\* size, the registry, subset_count and the version as they were.
C19_CompressionUnobservable ==
    /\ \A x \in Lookups :
          /\ SameObservable(self, find(self, x).self)
          /\ SameObservable(self, subset_size(self, x).self)
          /\ \A order \in IterOrders(map) :
                SameObservable(self, subset_containing(self, x, order).self)
    /\ \A x, y \in Lookups :
          SameObservable(self, same_subset(self, x, y).self)
    /\ \A order \in IterOrders(map) :
          SameObservable(self, all_subsets(self, order).self)
    /\ \A x, y \in Registered(self) :
          LET fa == find_internal(set, map[x])
              fb == find_internal(fa.set, map[y])
          IN  /\ SameObservable(self, [self EXCEPT !.set = fb.set])
              /\ fa.root = fb.root =>
                    SameObservable(self, union(self, x, y).self)

\* An element two links below its root: its find rewrites a parent link and
\* still nothing observable differs.
C19_Witness ==
    \E d \in Deep(self) :
        LET r == find(self, d)
        IN  /\ IsOk(r.ret)
            /\ r.self.set # set
            /\ r.self.set[map[d]].parent # set[map[d]].parent
            /\ SameObservable(self, r.self)

\* The root above node i and the nodes on the way to it, read off the forest
\* without changing it.
RECURSIVE Top(_, _)
Top(v, i) == IF v[i].parent = i THEN i ELSE Top(v, v[i].parent)
RECURSIVE Path(_, _)
Path(v, i) == IF v[i].parent = i THEN {i} ELSE {i} \cup Path(v, v[i].parent)

\* C20: find_internal(i) returns the root i had before the call; after it,
\* every non-root node on the original path from i has its former
\* grandparent as parent (a child of the root keeps the root), and every
\* node off that path is unchanged.
C20_PathSplitting ==
    \A i \in DOMAIN set :
        LET f == find_internal(set, i)
        IN  /\ f.root = Top(set, i)
            /\ DOMAIN f.set = DOMAIN set
            /\ \A j \in DOMAIN set :
                  /\ f.set[j].size = set[j].size
                  /\ f.set[j].parent =
                        IF j \in Path(set, i)
                        THEN set[set[j].parent].parent
                        ELSE set[j].parent

\* A node three links below its root: the lookup links it to its former
\* grandparent, which is not the root, and links its former parent to the
\* root.
C20_Witness ==
    \E i \in DOMAIN set :
        LET f == find_internal(set, i)
            p == set[i].parent
            g == set[p].parent
        IN  /\ Depth(set, i) = 3
            /\ f.set[i].parent = g
            /\ g # f.root
            /\ f.set[p].parent = f.root
            /\ f.set[g].parent = f.root

\* the node reached from i by following k parent links
RECURSIVE Ancestor(_, _, _)
Ancestor(v, i, k) == IF k = 0 THEN i ELSE Ancestor(v, v[i].parent, k - 1)

\* C21: the forest is acyclic: every stored parent index is an index of the
\* forest, and following the parent links from any node arrives at a node
\* that is its own parent within as many steps as there are nodes; so the
\* loop of find_internal ends on every registered index, at a root, without
\* leaving the forest.
C21_Acyclic ==
    /\ \A i \in DOMAIN set : set[i].parent \in DOMAIN set
    /\ \A x \in Registered(self) : map[x] \in DOMAIN set
    /\ \A i \in DOMAIN set :
          LET top == Ancestor(set, i, VecLen(set))
          IN  set[top].parent = top
    /\ \A x \in Registered(self) :
          LET f == find_internal(set, map[x])
          IN  /\ f.root \in Roots(self)
              /\ f.root = Ancestor(set, map[x], VecLen(set))
              /\ \A i \in DOMAIN f.set : f.set[i].parent \in DOMAIN set

\* A node two links below its root: the chain of three distinct nodes ends
\* at a self-parented root, which the lookup returns.
C21_Witness ==
    \E d \in Deep(self) :
        LET i == map[d]
            p == set[i].parent
            r == set[p].parent
        IN  /\ i # p /\ p # r /\ i # r
            /\ set[r].parent = r
            /\ find_internal(set, i).root = r

\* C23, the state part: the registry maps the registered elements one-to-one
\* onto the indices 0 .. len-1 of the forest.
C23_RegistryBijection ==
    /\ DOMAIN set = 0..(VecLen(set) - 1)
    /\ Cardinality(Registered(self)) = VecLen(set)
    /\ {map[x] : x \in Registered(self)} = DOMAIN set
    /\ \A x, y \in Registered(self) : map[x] = map[y] => x = y

\* C23, the step part: a registered element stays registered under the
\* index it has.
C23_IndexStable ==
    \A x \in Registered(self) : x \in DOMAIN map' /\ map'[x] = map[x]

\* C23: in every reachable state the registry is a bijection between the
\* registered elements and the dense index range of the forest, and no
\* insert, union or query ever changes the index of a registered element.
C23_RegistryInvariant == []C23_RegistryBijection /\ [][C23_IndexStable]_vars

\* Four elements registered in an order that is not their own order, then
\* merged into one tree with a node two links below the root.
C23_Witness ==
    /\ Cardinality(Registered(self)) = 4
    /\ \E x, y \in Registered(self) : x < y /\ map[x] > map[y]
    /\ Deep(self) # {}
    /\ C23_RegistryBijection

\* C24: a successful insert(e) leaves every element registered before it
\* untouched: all parent links, sizes and registry indices are as they
\* were, same_subset and subset_size give the same results for the earlier
\* elements, and e shares its subset with no other element.
C24_InsertFrame ==
    \A e \in Elems :
        LET r == insert(self, e)
        IN  IsOk(r.ret) =>
                /\ \A i \in DOMAIN set : r.self.set[i] = set[i]
                /\ \A x \in Registered(self) : r.self.map[x] = map[x]
                /\ \A x, y \in Registered(self) :
                      same_subset(r.self, x, y).ret = same_subset(self, x, y).ret
                /\ \A x \in Registered(self) :
                      /\ subset_size(r.self, x).ret = subset_size(self, x).ret
                      /\ same_subset(r.self, e, x).ret = Ok(FALSE)
                      /\ same_subset(r.self, x, e).ret = Ok(FALSE)
                /\ same_subset(r.self, e, e).ret = Ok(TRUE)
                /\ subset_size(r.self, e).ret = Ok(1)

\* An element is inserted beside a merged subset of three and stays alone.
C24_Witness ==
    \E e \in Elems, x \in Registered(self) :
        LET r == insert(self, e)
        IN  /\ IsOk(r.ret)
            /\ subset_size(self, x).ret = Ok(3)
            /\ subset_size(r.self, x).ret = Ok(3)
            /\ set[map[x]].parent # map[x]
            /\ same_subset(r.self, e, x).ret = Ok(FALSE)

\* C25: union by size keeps the trees balanced: a node d links below its
\* root r lives in a tree of at least 2^d elements (d <= log2 of the size
\* stored at r), and path splitting never moves any node further from its
\* root.
C25_Balance ==
    /\ \A i \in DOMAIN set : 2 ^ Depth(set, i) <= set[Top(set, i)].size
    /\ \A i \in DOMAIN set :
          LET f == find_internal(set, i)
          IN  \A j \in DOMAIN set : Depth(f.set, j) <= Depth(set, j)

\* The bound is met with equality: a node three links below the root of a
\* tree of exactly eight elements, which a lookup brings closer.
C25_Witness ==
    \E i \in DOMAIN set :
        /\ Depth(set, i) = 3
        /\ set[Top(set, i)].size = 8
        /\ Depth(find_internal(set, i).set, i) = 2

\* The subsets of a returned value as a set of sets (a failed or panicked
\* call has none).
AsSetOfSets(ret) ==
    IF IsOk(ret) THEN {ret.val[i] : i \in DOMAIN ret.val} ELSE {}
\* Two structs that differ at most in parent links of non-root nodes, and
\* answer every later query and ticket comparison alike.
AgreeObservably(s1, s2) ==
    /\ s1.map = s2.map
    /\ s1.subset_count = s2.subset_count
    /\ s1.ver = s2.ver
    /\ s1.set_id = s2.set_id
    /\ DOMAIN s1.set = DOMAIN s2.set
    /\ Roots(s1) = Roots(s2)
    /\ \A r \in Roots(s1) : s1.set[r].size = s2.set[r].size
    /\ \A x \in Lookups :
          /\ find(s1, x).ret = find(s2, x).ret
          /\ subset_size(s1, x).ret = subset_size(s2, x).ret
          /\ \A y \in Lookups : same_subset(s1, x, y).ret = same_subset(s2, x, y).ret
    /\ \A x \in Registered(s1) : root_of(s1, x) = root_of(s2, x)

\* C26: the order in which the HashMap is iterated does not matter: for any
\* two orders, all_subsets returns the same set of sets and
\* subset_containing the same set, and the two resulting structs, which may
\* differ in parent links of non-root nodes, agree on every resolved root,
\* every root's size, subset_count and version, hence on every later query
\* result and ticket. (Any two results coincide iff any two members of the
\* set of results do; the sets below hold each distinct result once.) The
\* results over all orders are those of all_subsets_any and
\* subset_containing_any; for a map of up to MaxElem entries they are compared
\* with the results of all_subsets and subset_containing on every
\* permutation of the entries.
C26_OrderIndependence ==
    /\ LET R == all_subsets_any(self)
       IN  /\ \A c1, c2 \in {<<r.ret.tag, AsSetOfSets(r.ret)>> : r \in R} : c1 = c2
           /\ \A s1, s2 \in {r.self : r \in R} : AgreeObservably(s1, s2)
    /\ \A e \in Lookups \cup (1..PathElems) :
          LET R == subset_containing_any(self, e)
          IN  /\ \A c1, c2 \in {r.ret : r \in R} : c1 = c2
              /\ \A s1, s2 \in {r.self : r \in R} : AgreeObservably(s1, s2)
    /\ Cardinality(DOMAIN map) <= MaxElem =>
          /\ all_subsets_any(self) =
                 {all_subsets(self, order) : order \in IterOrders(map)}
          /\ \A e \in Lookups \cup (1..PathElems) :
                 subset_containing_any(self, e) =
                     {subset_containing(self, e, order) : order \in IterOrders(map)}

\* Two iteration orders leave different forests: a node three links below
\* its root ends under its former grandparent when it is visited before its
\* parent, and under the root when visited after; all_subsets returns the
\* same subsets for both and the two structs answer alike.
C26_Witness ==
    \E i \in DOMAIN set :
        /\ Depth(set, i) = 3
        /\ \E r1, r2 \in all_subsets_any(self) :
               /\ IsOk(r1.ret) /\ IsOk(r2.ret)
               /\ r1.self.set # r2.self.set
               /\ r1.self.set[i].parent = set[set[i].parent].parent
               /\ r2.self.set[i].parent = Top(set, i)
               /\ AsSetOfSets(r1.ret) = AsSetOfSets(r2.ret)
               /\ AgreeObservably(r1.self, r2.self)

\* The element whose lookup is repeated; its lookups have converged when it
\* is at most one link below its root and one more find(x) leaves the struct
\* as it is and returns the ticket of the find before.
Hot == ticket1.elem
Converged ==
    /\ ticket1 # NoTicket
    /\ Depth(set, map[Hot]) <= 1
    /\ find(self, Hot).self = self
    /\ find(self, Hot).ret = Ok(ticket1.ticket)

\* C22: once find(x) is being repeated with no merging union in between,
\* the forest eventually reaches a state where x's parent is its root, and
\* from then on every further find(x) changes nothing and returns the same
\* ticket.
C22_RepeatedFindConverges == (ticket1 # NoTicket) ~> []Converged

\* x was three links below its root when its lookups began: after the
\* first find it is still two links below, so one lookup was not enough.
C22_Witness ==
    /\ ticket1 # NoTicket
    /\ Depth(set, map[Hot]) = 2
    /\ ~Converged
    /\ Depth(find(self, Hot).self.set, map[Hot]) = 1

====
